---------------------------- MODULE Spec2Model ----------------------------
(***************************************************************************)
(* Step units of the orchestrator examples (step1, step2, step3,           *)
(* loopbackget, step-exception): the request/response envelope, the        *)
(* base64 payload codec, the self-tests and the routing convention.        *)
(*                                                                         *)
(* Text (str and bytes alike) is a sequence of character codes.  A Python  *)
(* int is a record [neg, mag]: a sign and the decimal digits of the        *)
(* magnitude, most significant first, without leading zeros, so that ints  *)
(* keep their arbitrary precision.  The outcome of a call is a record      *)
(* whose kind is "return" or "raise".                                      *)
(***************************************************************************)
EXTENDS Integers, Sequences, FiniteSets, TLC

\* ------------------------------------------------------------------ bounds

\* Largest numeric payload the request pool spells out (0..MaxN).
MaxN == 150

\* Clock readings datetime.now() may return.
MaxTime == 1

\* ---------------------------------------------------------- text constants

header_step1 == <<91, 115, 116, 101, 112, 49, 93, 32>>
header_step2 == <<91, 115, 116, 101, 112, 50, 93, 32>>
header_step3 == <<91, 115, 116, 101, 112, 51, 93, 32>>
header_step_exception ==
    <<91, 115, 116, 101, 112, 45, 101, 120, 99, 101, 112, 116, 105, 111, 110, 93, 32>>
header_loopbackget == <<91, 76, 111, 111, 112, 98, 97, 99, 107, 71, 101, 116, 93, 32>>

TxtEntering == <<101, 110, 116, 101, 114, 105, 110, 103>>
TxtEnteringColon == <<101, 110, 116, 101, 114, 105, 110, 103, 58, 32>>
TxtExiting == <<101, 120, 105, 116, 105, 110, 103>>
TxtExitingColon == <<101, 120, 105, 116, 105, 110, 103, 58, 32>>
TxtGenerated == <<103, 101, 110, 101, 114, 97, 116, 101, 100, 32>>
TxtExceptionRaisedLog ==
    <<101, 120, 99, 101, 112, 116, 105, 111, 110, 32, 114, 97, 105, 115, 101, 100>>
TxtExceptionRaised ==
    <<69, 120, 99, 101, 112, 116, 105, 111, 110, 32, 114, 97, 105, 115, 101, 100>>
TxtHello ==
    <<72, 101, 108, 108, 111, 32, 102, 114, 111, 109, 32, 116, 104, 101, 32,
      108, 111, 111, 112, 98, 97, 99, 107, 32, 71, 69, 84, 32, 109, 101, 116,
      104, 111, 100>>
TxtRequestReceived ==
    <<114, 101, 113, 117, 101, 115, 116, 32, 114, 101, 99, 101, 105, 118, 101, 100>>
TxtDataColon == <<32, 100, 97, 116, 97, 58, 32>>
TxtResponse == <<82, 101, 115, 112, 111, 110, 115, 101, 32, 32, 32, 32, 32, 32, 58, 32>>
TxtResponseJson ==
    <<82, 101, 115, 112, 111, 110, 115, 101, 32, 74, 83, 79, 78, 32, 58, 32>>
TxtDecoded == <<68, 101, 99, 111, 100, 101, 100, 32, 100, 97, 116, 97, 32, 32, 58, 32>>
TxtGuid == <<97, 98, 99, 100>>
TxtHelloWorldB64 ==
    <<83, 71, 86, 115, 98, 71, 56, 115, 73, 72, 100, 118, 99, 109, 120, 107,
      73, 81, 61, 61>>
TxtFortyTwo == <<52, 50>>

\* ------------------------------------------------------------ base64 codec

\* The base64 alphabet: A-Z, a-z, 0-9, '+', '/'.
B64Char(i) ==
    IF i < 26 THEN 65 + i
    ELSE IF i < 52 THEN 97 + (i - 26)
    ELSE IF i < 62 THEN 48 + (i - 52)
    ELSE IF i = 62 THEN 43 ELSE 47

IsB64Char(c) ==
    \/ (65 <= c /\ c <= 90)
    \/ (97 <= c /\ c <= 122)
    \/ (48 <= c /\ c <= 57)
    \/ c = 43
    \/ c = 47

B64Val(c) ==
    IF 65 <= c /\ c <= 90 THEN c - 65
    ELSE IF 97 <= c /\ c <= 122 THEN c - 97 + 26
    ELSE IF 48 <= c /\ c <= 57 THEN c - 48 + 52
    ELSE IF c = 43 THEN 62 ELSE 63

\* The k-th character of the encoding: every 3 bytes give 4 characters, and
\* a last group of 1 or 2 bytes is padded with '='.
B64EncodedChar(b, k) ==
    LET i == 3 * ((k - 1) \div 4) + 1
        j == (k - 1) % 4
        n == Len(b) - i + 1
        b1 == b[i]
        b2 == IF n >= 2 THEN b[i + 1] ELSE 0
        b3 == IF n >= 3 THEN b[i + 2] ELSE 0
    IN  CASE j = 0 -> B64Char(b1 \div 4)
          [] j = 1 -> B64Char((b1 % 4) * 16 + b2 \div 16)
          [] j = 2 -> IF n >= 2 THEN B64Char((b2 % 16) * 4 + b3 \div 64) ELSE 61
          [] OTHER -> IF n >= 3 THEN B64Char(b3 % 64) ELSE 61

\* base64.b64encode(value).decode("utf-8")
b64encode(b) == [k \in 1..(4 * ((Len(b) + 2) \div 3)) |-> B64EncodedChar(b, k)]

\* One turn of the decoder's loop on character c: characters outside the
\* alphabet are skipped, and a pad that completes a quad ends the input.
A2BStep(st, c) ==
    IF st.done THEN st
    ELSE IF c = 61 THEN
        IF st.quad_pos >= 2 /\ st.quad_pos + st.pads + 1 >= 4
        THEN [st EXCEPT !.done = TRUE]
        ELSE IF st.quad_pos >= 2 THEN [st EXCEPT !.pads = @ + 1] ELSE st
    ELSE IF ~IsB64Char(c) THEN st
    ELSE LET v == B64Val(c) IN
        CASE st.quad_pos = 0 ->
                [st EXCEPT !.quad_pos = 1, !.leftchar = v, !.pads = 0]
          [] st.quad_pos = 1 ->
                [st EXCEPT !.quad_pos = 2, !.leftchar = v % 16, !.pads = 0,
                           !.acc = Append(@, st.leftchar * 4 + v \div 16)]
          [] st.quad_pos = 2 ->
                [st EXCEPT !.quad_pos = 3, !.leftchar = v % 4, !.pads = 0,
                           !.acc = Append(@, st.leftchar * 16 + v \div 4)]
          [] OTHER ->
                [st EXCEPT !.quad_pos = 0, !.leftchar = 0, !.pads = 0,
                           !.acc = Append(@, st.leftchar * 64 + v)]

\* The loop over s[lo..hi], left to right (split in halves to keep the
\* evaluation shallow).
RECURSIVE A2BLoop(_, _, _, _)
A2BLoop(s, lo, hi, st) ==
    IF lo > hi THEN st
    ELSE IF lo = hi THEN A2BStep(st, s[lo])
    ELSE LET mid == (lo + hi) \div 2
             left == A2BLoop(s, lo, mid, st)
         IN  IF left.done THEN left ELSE A2BLoop(s, mid + 1, hi, left)

\* binascii.a2b_base64: leftover characters of an unfinished quad are an
\* error unless a completing pad ended the input.
A2B(s) ==
    LET st == A2BLoop(s, 1, Len(s),
                      [quad_pos |-> 0, leftchar |-> 0, pads |-> 0,
                       acc |-> <<>>, done |-> FALSE])
    IN  IF ~st.done /\ st.quad_pos # 0
        THEN [ok |-> FALSE, exc |-> "binascii.Error", val |-> <<>>]
        ELSE [ok |-> TRUE, exc |-> "none", val |-> st.acc]

\* base64.b64decode(s) of a str: the text must be ASCII.
b64decode(s) ==
    IF \E i \in 1..Len(s) : s[i] > 127
    THEN [ok |-> FALSE, exc |-> "ValueError", val |-> <<>>]
    ELSE A2B(s)

\* ------------------------------------------------------------ Python ints

IsDigit(c) == 48 <= c /\ c <= 57

\* Whitespace int() strips from a bytes literal.
IsByteSpace(c) == c \in {9, 10, 11, 12, 13, 32}

\* The literal without its surrounding whitespace is b[lo..hi].
LStrip(b) ==
    IF \A i \in 1..Len(b) : IsByteSpace(b[i]) THEN Len(b) + 1
    ELSE CHOOSE i \in 1..Len(b) :
            ~IsByteSpace(b[i]) /\ \A k \in 1..(i - 1) : IsByteSpace(b[k])

RStrip(b) ==
    IF \A i \in 1..Len(b) : IsByteSpace(b[i]) THEN 0
    ELSE CHOOSE j \in 1..Len(b) :
            ~IsByteSpace(b[j]) /\ \A k \in (j + 1)..Len(b) : IsByteSpace(b[k])

\* b[i..j] is digits with single underscores between them.
DigitsOk(b, i, j) ==
    /\ i <= j
    /\ IsDigit(b[i])
    /\ IsDigit(b[j])
    /\ \A k \in i..j : IsDigit(b[k]) \/ (b[k] = 95 /\ b[k - 1] # 95)

DropLeadingZeros(d) ==
    IF \A k \in 1..Len(d) : d[k] = 0 THEN <<0>>
    ELSE LET f == CHOOSE k \in 1..Len(d) : d[k] # 0 /\ \A m \in 1..(k - 1) : d[m] = 0
         IN  SubSeq(d, f, Len(d))

\* int(b): a decimal literal with optional surrounding whitespace and sign.
int_of_bytes(b) ==
    LET lo == LStrip(b)
        hi == RStrip(b)
        signed == lo <= hi /\ b[lo] \in {43, 45}
        first == IF signed THEN lo + 1 ELSE lo
    IN  IF ~DigitsOk(b, first, hi)
        THEN [ok |-> FALSE, exc |-> "ValueError", val |-> [neg |-> FALSE, mag |-> <<0>>]]
        ELSE LET kept == SelectSeq(SubSeq(b, first, hi), IsDigit)
                 mag == DropLeadingZeros([k \in 1..Len(kept) |-> kept[k] - 48])
             IN  [ok |-> TRUE, exc |-> "none",
                  val |-> [neg |-> signed /\ b[lo] = 45 /\ mag # <<0>>, mag |-> mag]]

RECURSIVE NatDigits(_)
NatDigits(n) == IF n < 10 THEN <<n>> ELSE Append(NatDigits(n \div 10), n % 10)

\* A small machine integer as a Python int.
PyInt(n) == IF n < 0 THEN [neg |-> TRUE, mag |-> NatDigits(-n)]
            ELSE [neg |-> FALSE, mag |-> NatDigits(n)]

RECURSIVE NatOfDigits(_, _)
NatOfDigits(d, k) == IF k = 0 THEN 0 ELSE NatOfDigits(d, k - 1) * 10 + d[k]

\* The magnitude of a Python int as a number.
MagValue(v) == NatOfDigits(v.mag, Len(v.mag))

\* str(v)
str_of_int(v) ==
    (IF v.neg THEN <<45>> ELSE <<>>) \o [k \in 1..Len(v.mag) |-> v.mag[k] + 48]

\* v * 5.  Times five is times ten halved: the carry into a digit is half
\* the digit to its right, and the digit itself contributes 5 when odd.
int_times_5(v) ==
    IF v.mag = <<0>> THEN v
    ELSE LET d == v.mag
             low == [k \in 1..Len(d) |->
                        (d[k] % 2) * 5 + (IF k < Len(d) THEN d[k + 1] \div 2 ELSE 0)]
         IN  [neg |-> v.neg,
              mag |-> IF d[1] \div 2 = 0 THEN low ELSE <<d[1] \div 2>> \o low]

\* ------------------------------------------------- float square root, round

\* Decimal digits beyond which int -> float conversion overflows (10^309 and
\* above exceed the largest double).
FloatMaxDigits == 309

RECURSIVE FloorSqrtFrom(_, _)
FloorSqrtFrom(n, r) == IF (r + 1) * (r + 1) > n THEN r ELSE FloorSqrtFrom(n, r + 1)

\* math.floor in place of round.
round_sqrt_floor(n) == FloorSqrtFrom(n, 0)

\* round(math.sqrt(n)) for a non-negative n the double represents exactly:
\* the square root of an integer is never a half, so the rounding mode
\* (half to even) never decides, and the result is the floor f when
\* n <= f*f + f and f + 1 above that.
round_sqrt(n) ==
    LET f == FloorSqrtFrom(n, 0) IN
    IF n - f * f <= f THEN f ELSE f + 1

\* math.sqrt(val) followed by round(): the faults of the conversion to
\* float, then the rounded root.  The request pools hold literals that are
\* either small or longer than FloatMaxDigits, so the magnitude is a
\* number the double holds exactly whenever it is computed.
sqrt_rounded(v) ==
    IF v.neg THEN [ok |-> FALSE, exc |-> "ValueError", val |-> PyInt(0)]
    ELSE IF Len(v.mag) > FloatMaxDigits
    THEN [ok |-> FALSE, exc |-> "OverflowError", val |-> PyInt(0)]
    ELSE [ok |-> TRUE, exc |-> "none", val |-> PyInt(round_sqrt(MagValue(v)))]

\* bytes.decode("utf-8") on the ASCII payloads the steps produce.
utf8_decode(b) ==
    IF \E i \in 1..Len(b) : b[i] > 127
    THEN [ok |-> FALSE, exc |-> "UnicodeDecodeError", val |-> <<>>]
    ELSE [ok |-> TRUE, exc |-> "none", val |-> b]

\* --------------------------------------------------------------- outcomes

\* A call that returned resp after printing out; fault names the fault the
\* step caught on the way ("none" when nothing was raised).
Return(resp, out, fault) ==
    [kind |-> "return", exc |-> "none", fault |-> fault, line |-> 0,
     resp |-> resp, out |-> out]

\* A call that raised exc at source line `line` after printing out.
Raise(exc, line, out) ==
    [kind |-> "raise", exc |-> exc, fault |-> exc, line |-> line, out |-> out]

\* print(header + msg) of the plain steps
PlainLog(header, msg) == [text |-> header \o msg]

ResponseFields == {"Result", "StatusCode", "ContentType", "Data"}

\* ------------------------------------------------------------------ step2

step2_process(req) ==
    LET out1 == <<PlainLog(header_step2, TxtEntering)>> IN
    IF "Data" \notin DOMAIN req THEN Raise("KeyError", 21, out1)
    ELSE LET dec == b64decode(req.Data) IN
    IF ~dec.ok THEN Raise(dec.exc, 21, out1)
    ELSE LET parsed == int_of_bytes(dec.val) IN
    IF ~parsed.ok THEN Raise(parsed.exc, 21, out1)
    ELSE LET val == int_times_5(parsed.val) IN
        Return([Result |-> "Success", StatusCode |-> 200,
                ContentType |-> "text/plain",
                Data |-> b64encode(str_of_int(val))],
               Append(out1, PlainLog(header_step2, TxtExitingColon \o str_of_int(val))),
               "none")

\* ------------------------------------------------------------------ step3

step3_process(req) ==
    LET out1 == <<PlainLog(header_step3, TxtEntering)>> IN
    IF "Data" \notin DOMAIN req THEN Raise("KeyError", 22, out1)
    ELSE LET dec == b64decode(req.Data) IN
    IF ~dec.ok THEN Raise(dec.exc, 22, out1)
    ELSE LET parsed == int_of_bytes(dec.val) IN
    IF ~parsed.ok THEN Raise(parsed.exc, 22, out1)
    ELSE LET rounded == sqrt_rounded(parsed.val) IN
    IF ~rounded.ok THEN Raise(rounded.exc, 23, out1)
    ELSE Return([Result |-> "Success", StatusCode |-> 200,
                 ContentType |-> "text/plain",
                 Data |-> b64encode(str_of_int(rounded.val))],
                Append(out1, PlainLog(header_step3,
                                      TxtExitingColon \o str_of_int(rounded.val))),
                "none")

\* ------------------------------------------------------------------ step1

RandLo == 0
RandHi == 100

\* The rule with the wrong remainder.
step1_rule_off_by_one(rand) == rand % 3 = 1

\* The business rule that raises inside the try block.
step1_rule(rand) == rand % 3 = 0

step1_success_resp(rand) ==
    [Result |-> "Success", StatusCode |-> 200, ContentType |-> "text/plain",
     Data |-> b64encode(str_of_int(PyInt(rand)))]

\* The except block with the status of the success path.
step1_exception_resp_ok_status(rand) ==
    [Result |-> "Exception", StatusCode |-> 200, ContentType |-> "text/plain",
     Data |-> b64encode(str_of_int(PyInt(rand)))]

\* The response the except block builds.
step1_exception_resp(rand) ==
    [Result |-> "Exception", StatusCode |-> 500, ContentType |-> "text/plain",
     Data |-> b64encode(str_of_int(PyInt(rand)))]

\* process ignores req; rand is the value random.randint(0, 100) returns.
step1_process(req, rand) ==
    LET out2 == <<PlainLog(header_step1, TxtEntering),
                  PlainLog(header_step1, TxtGenerated \o str_of_int(PyInt(rand)))>>
        exit == PlainLog(header_step1, TxtExitingColon \o str_of_int(PyInt(rand)))
    IN  IF step1_rule(rand)
        THEN Return(step1_exception_resp(rand),
                    out2 \o <<PlainLog(header_step1, TxtExceptionRaisedLog), exit>>,
                    "Exception")
        ELSE Return(step1_success_resp(rand), Append(out2, exit), "none")

\* --------------------------------------------------------- step-exception

step_exception_process(req) ==
    IF "Data" \notin DOMAIN req THEN Raise("KeyError", 19, <<>>)
    ELSE Return([Result |-> "Success", StatusCode |-> 200,
                 ContentType |-> "text/plain",
                 Data |-> b64encode(TxtExceptionRaised)],
                <<PlainLog(header_step_exception, TxtEnteringColon \o req.Data),
                  PlainLog(header_step_exception, TxtExiting)>>,
                "none")

\* ------------------------------------------------------------ loopbackget

severity_values == {"Debug", "Info", "Warn", "Error", "Alert", "Critical", "Emergency"}

result_values == {"Success", "Failure", "Exception"}

\* Whitespace str.strip() removes (the code points below 256).
IsStrSpace(c) == c \in {9, 10, 11, 12, 13, 28, 29, 30, 31, 32, 133, 160}

\* not (str and str.strip())
is_null(str) == ~(str # <<>> /\ \E i \in 1..Len(str) : ~IsStrSpace(str[i]))

\* log(sev, msg): nothing at all for a null message; otherwise the severity
\* is checked and the record printed when log_console is set.
loopbackget_log(sev, msg, console, now) ==
    IF is_null(msg) THEN [ok |-> TRUE, exc |-> "none", out |-> <<>>]
    ELSE IF sev \notin severity_values
    THEN [ok |-> FALSE, exc |-> "Exception", out |-> <<>>]
    ELSE [ok |-> TRUE, exc |-> "none",
          out |-> IF console
                  THEN <<[json |-> [TimestampUtc |-> now, Severity |-> sev,
                                    Message |-> header_loopbackget \o msg]]>>
                  ELSE <<>>]

bytes_to_base64_string(value) == b64encode(value)

loopbackget_process(req, console, now) ==
    IF "GUID" \notin DOMAIN req \/ "Data" \notin DOMAIN req
    THEN Raise("KeyError", 64, <<>>)
    ELSE LET logged == loopbackget_log("Debug",
                           TxtRequestReceived \o req.GUID \o TxtDataColon \o req.Data,
                           console, now) IN
    IF ~logged.ok THEN Raise(logged.exc, 64, <<>>)
    ELSE Return([Result |-> "Success", StatusCode |-> 200,
                 ContentType |-> "text/plain",
                 Data |-> bytes_to_base64_string(TxtHello)],
                logged.out, "none")

\* -------------------------------------------------------------- self-tests

\* The two prints that end every runtest: the raw response, then its Data
\* decoded.  A fault of process, or of the decoding, leaves runtest at once.
runtest_prints(r, label, line) ==
    IF r.kind = "raise" THEN r
    ELSE LET first == Append(r.out, [text |-> label, json |-> r.resp])
             dec == b64decode(r.resp.Data)
             txt == utf8_decode(dec.val)
         IN  IF ~dec.ok THEN Raise(dec.exc, line, first)
             ELSE IF ~txt.ok THEN Raise(txt.exc, line, first)
             ELSE Return(r.resp, Append(first, [text |-> TxtDecoded \o txt.val]), r.fault)

Step2TestLo == 0
Step2TestHi == 100
Step3TestLo == 20
Step3TestHi == 200

step1_runtest(rand) ==
    runtest_prints(step1_process([GUID |-> TxtGuid], rand), TxtResponse, 46)

step2_runtest(val) ==
    runtest_prints(step2_process([GUID |-> TxtGuid, Data |-> str_of_int(PyInt(val))]),
                   TxtResponse, 35)

step3_runtest(val) ==
    runtest_prints(step3_process([GUID |-> TxtGuid, Data |-> str_of_int(PyInt(val))]),
                   TxtResponse, 38)

loopbackget_runtest(console, now) ==
    runtest_prints(loopbackget_process([GUID |-> TxtGuid, Data |-> TxtHelloWorldB64],
                                       console, now),
                   TxtResponseJson, 84)

step_exception_runtest ==
    runtest_prints(step_exception_process([GUID |-> TxtGuid, Data |-> TxtFortyTwo]),
                   TxtResponse, 34)

\* ------------------------------------------------------------ input pools

Zeros(k) == [i \in 1..k |-> 48]

\* str(10 ** FloatMaxDigits): a decimal literal too large for a double.
HugeDecimal == <<49>> \o Zeros(FloatMaxDigits)

\* Payloads that are the base64 of a decimal literal.
NumericData ==
    {b64encode(str_of_int(PyInt(n))) : n \in 0..MaxN}
    \cup {b64encode(str_of_int(PyInt(-1))), b64encode(str_of_int(PyInt(-7))),
          b64encode(<<32, 49, 50, 32>>), b64encode(HugeDecimal)}

\* Payloads that are not: bare digits, the empty string, text outside the
\* alphabet, valid base64 of non-numeric bytes, a non-ASCII character.
OtherData ==
    {TxtFortyTwo, <<53>>, <<49, 52, 52>>, <<>>, <<33, 33, 33>>,
     <<49, 50, 51, 52>>, b64encode(<<97, 98, 99>>), TxtHelloWorldB64, <<233>>}

DataPool == NumericData \cup OtherData

\* Requests: with both fields, without Data, without GUID.
Requests ==
    {[GUID |-> TxtGuid, Data |-> d] : d \in DataPool}
    \cup {[GUID |-> TxtGuid], [Data |-> TxtHelloWorldB64]}

\* Requests that start a chain: the generator ignores its input, so Data may
\* be there or not.
ChainRequests ==
    {[GUID |-> TxtGuid, Data |-> d] : d \in {TxtHelloWorldB64, <<>>, TxtFortyTwo}}
    \cup {[GUID |-> TxtGuid]}

SeverityPool == severity_values \cup {"Trace", "debug", ""}

MessagePool == {<<>>, <<32>>, <<32, 9, 10>>, <<104, 105>>, <<32, 120, 32>>}

Timestamps == 0..MaxTime

\* ------------------------------------------------------------------ state

VARIABLES
    pc,           \* "idle", "returned" (a call has ended), "chain"
    call,         \* the call that ended last and its inputs
    result,       \* its outcome: what it returned or raised, and what it printed
    log_console,  \* loopbackget's module-level toggle
    chain         \* the hops of the running chain: step, request, outcome

vars == <<pc, call, result, log_console, chain>>

NoCall == [op |-> "none"]
NoResult == [kind |-> "none"]

Init ==
    /\ pc = "idle"
    /\ call = NoCall
    /\ result = NoResult
    /\ log_console = TRUE
    /\ chain = <<>>

\* ------------------------------------------------------ process, per step

Step1Process ==
    /\ pc = "idle"
    /\ \E req \in Requests, rand \in RandLo..RandHi :
        /\ call' = [op |-> "process", step |-> "step1", req |-> req, rand |-> rand]
        /\ result' = step1_process(req, rand)
    /\ pc' = "returned"
    /\ UNCHANGED <<log_console, chain>>

Step2Process ==
    /\ pc = "idle"
    /\ \E req \in Requests :
        /\ call' = [op |-> "process", step |-> "step2", req |-> req]
        /\ result' = step2_process(req)
    /\ pc' = "returned"
    /\ UNCHANGED <<log_console, chain>>

Step3Process ==
    /\ pc = "idle"
    /\ \E req \in Requests :
        /\ call' = [op |-> "process", step |-> "step3", req |-> req]
        /\ result' = step3_process(req)
    /\ pc' = "returned"
    /\ UNCHANGED <<log_console, chain>>

LoopbackGetProcess ==
    /\ pc = "idle"
    /\ \E req \in Requests, now \in Timestamps :
        /\ call' = [op |-> "process", step |-> "loopbackget", req |-> req, now |-> now]
        /\ result' = loopbackget_process(req, log_console, now)
    /\ pc' = "returned"
    /\ UNCHANGED <<log_console, chain>>

StepExceptionProcess ==
    /\ pc = "idle"
    /\ \E req \in Requests :
        /\ call' = [op |-> "process", step |-> "step-exception", req |-> req]
        /\ result' = step_exception_process(req)
    /\ pc' = "returned"
    /\ UNCHANGED <<log_console, chain>>

\* ------------------------------------------------------------ log, direct

LoopbackGetLog ==
    /\ pc = "idle"
    /\ \E sev \in SeverityPool, msg \in MessagePool, now \in Timestamps :
        /\ call' = [op |-> "log", sev |-> sev, msg |-> msg, now |-> now]
        /\ result' = LET l == loopbackget_log(sev, msg, log_console, now) IN
                     [kind |-> IF l.ok THEN "return" ELSE "raise",
                      exc |-> l.exc, out |-> l.out]
    /\ pc' = "returned"
    /\ UNCHANGED <<log_console, chain>>

\* The deployer's edit of the module-level toggle.
SetLogConsole ==
    /\ pc = "idle"
    /\ log_console' = ~log_console
    /\ UNCHANGED <<pc, call, result, chain>>

\* ------------------------------------------------------------- self-tests

Step1RunTest ==
    /\ pc = "idle"
    /\ \E rand \in RandLo..RandHi :
        /\ call' = [op |-> "runtest", step |-> "step1", rand |-> rand]
        /\ result' = step1_runtest(rand)
    /\ pc' = "returned"
    /\ UNCHANGED <<log_console, chain>>

Step2RunTest ==
    /\ pc = "idle"
    /\ \E val \in Step2TestLo..Step2TestHi :
        /\ call' = [op |-> "runtest", step |-> "step2", val |-> val]
        /\ result' = step2_runtest(val)
    /\ pc' = "returned"
    /\ UNCHANGED <<log_console, chain>>

Step3RunTest ==
    /\ pc = "idle"
    /\ \E val \in Step3TestLo..Step3TestHi :
        /\ call' = [op |-> "runtest", step |-> "step3", val |-> val]
        /\ result' = step3_runtest(val)
    /\ pc' = "returned"
    /\ UNCHANGED <<log_console, chain>>

LoopbackGetRunTest ==
    /\ pc = "idle"
    /\ \E now \in Timestamps :
        /\ call' = [op |-> "runtest", step |-> "loopbackget", now |-> now]
        /\ result' = loopbackget_runtest(log_console, now)
    /\ pc' = "returned"
    /\ UNCHANGED <<log_console, chain>>

StepExceptionRunTest ==
    /\ pc = "idle"
    /\ call' = [op |-> "runtest", step |-> "step-exception"]
    /\ result' = step_exception_runtest
    /\ pc' = "returned"
    /\ UNCHANGED <<log_console, chain>>

\* ---------------------------------------------------- routing convention

Hop(step, req, r) == [step |-> step, req |-> req, result |-> r]

LastHop == chain[Len(chain)]

successor_process(step, req) ==
    IF step = "step2" THEN step2_process(req) ELSE step3_process(req)

\* The chain starts with the generator.
ChainStart ==
    /\ pc = "idle"
    /\ \E req \in ChainRequests, rand \in RandLo..RandHi :
        /\ chain' = <<Hop("step1", req, step1_process(req, rand))>>
        /\ call' = [op |-> "chain", rand |-> rand]
    /\ pc' = "chain"
    /\ UNCHANGED <<result, log_console>>

\* Result = Success: the response's Data is the successor's request Data.
ChainSuccess ==
    /\ pc = "chain"
    /\ Len(chain) = 1
    /\ LastHop.result.kind = "return"
    /\ LastHop.result.resp.Result = "Success"
    /\ \E succ \in {"step2", "step3"} :
        LET req == [GUID |-> LastHop.req.GUID, Data |-> LastHop.result.resp.Data] IN
        chain' = Append(chain, Hop(succ, req, successor_process(succ, req)))
    /\ UNCHANGED <<pc, call, result, log_console>>

\* Result = Exception: the request is routed to the exception step, as it
\* came in or carrying the failed step's Data.
ChainException ==
    /\ pc = "chain"
    /\ Len(chain) = 1
    /\ LastHop.result.kind = "return"
    /\ LastHop.result.resp.Result = "Exception"
    /\ \E req \in {LastHop.req,
                   [GUID |-> LastHop.req.GUID, Data |-> LastHop.result.resp.Data]} :
        chain' = Append(chain, Hop("step-exception", req, step_exception_process(req)))
    /\ UNCHANGED <<pc, call, result, log_console>>

ChainOver == pc = "chain" /\ (Len(chain) = 2 \/ LastHop.result.kind = "raise")

\* The caller is done with the response: the envelopes are discarded.
Discard ==
    /\ pc = "returned" \/ ChainOver
    /\ pc' = "idle"
    /\ call' = NoCall
    /\ result' = NoResult
    /\ chain' = <<>>
    /\ UNCHANGED log_console

Next ==
    \/ Step1Process
    \/ Step2Process
    \/ Step3Process
    \/ LoopbackGetProcess
    \/ StepExceptionProcess
    \/ LoopbackGetLog
    \/ SetLogConsole
    \/ Step1RunTest
    \/ Step2RunTest
    \/ Step3RunTest
    \/ LoopbackGetRunTest
    \/ StepExceptionRunTest
    \/ ChainStart
    \/ ChainSuccess
    \/ ChainException
    \/ Discard

Spec == Init /\ [][Next]_vars

\* ============================================================ properties

ProcessEnded == pc = "returned" /\ call.op = "process"

\* The request carries both fields of the envelope.
FullRequest == "GUID" \in DOMAIN call.req /\ "Data" \in DOMAIN call.req

WellFormed(resp) == DOMAIN resp = ResponseFields /\ resp.Result \in result_values

StatusConsistent(resp) ==
    /\ resp.Result = "Success" => (200 <= resp.StatusCode /\ resp.StatusCode < 300)
    /\ resp.Result = "Exception" => resp.StatusCode >= 500

\* t is the decimal text of a non-negative integer: digits only, no leading
\* zero.
IsDecimalText(t) ==
    /\ Len(t) >= 1
    /\ \A k \in 1..Len(t) : 48 <= t[k] /\ t[k] <= 57
    /\ Len(t) > 1 => t[1] # 48

RECURSIVE DecimalValue(_, _)
DecimalValue(t, k) == IF k = 0 THEN 0 ELSE DecimalValue(t, k - 1) * 10 + (t[k] - 48)

\* t is the decimal text of n.
IsDecimalTextOf(t, n) == IsDecimalText(t) /\ DecimalValue(t, Len(t)) = n

\* r is the integer nearest to the square root of n.
NearestRoot(r, n) ==
    /\ r >= 0
    /\ n = 0 => r = 0
    /\ n > 0 => ((2 * r - 1) * (2 * r - 1) <= 4 * n /\ 4 * n < (2 * r + 1) * (2 * r + 1))

\* C1: every step returns, for every request with its two fields (whatever
\* the Data), a response with exactly the four fields and a Result among
\* Success, Failure, Exception; no fault leaves process.
C1_EnvelopeAlwaysReturned ==
    (ProcessEnded /\ FullRequest) =>
        (result.kind = "return" /\ WellFormed(result.resp))

\* C2: a decode fault, a non-numeric payload, a square root of a negative
\* number or the generator's rule ends in a returned response with
\* Result = Exception, StatusCode = 500 and base64 Data.
C2_FaultsBecomeExceptionResponses ==
    (ProcessEnded /\ FullRequest
        /\ result.fault \in {"binascii.Error", "ValueError", "Exception"}) =>
        /\ result.kind = "return"
        /\ result.resp.Result = "Exception"
        /\ result.resp.StatusCode = 500
        /\ b64decode(result.resp.Data).ok

\* C3: every response a step produced (called directly, by a self-test or
\* in a chain) has a 2xx StatusCode when its Result is Success and a
\* StatusCode of 500 or more when its Result is Exception.
C3_StatusMatchesResult ==
    /\ (pc = "returned" /\ call.op \in {"process", "runtest"} /\ result.kind = "return")
            => StatusConsistent(result.resp)
    /\ \A i \in 1..Len(chain) :
            chain[i].result.kind = "return" => StatusConsistent(chain[i].result.resp)

C3_Witness ==
    /\ ProcessEnded
    /\ call.step = "step1"
    /\ result.kind = "return"
    /\ result.resp.Result = "Exception"
    /\ result.resp.StatusCode = 500

\* C4: in a chain, the successor runs only after a Success of step1 and the
\* exception step only after an Exception, no step of the chain faults, and
\* the last response of a finished chain has Result = Success.
C4_ChainTerminatesCleanly ==
    pc = "chain" =>
        /\ \A i \in 1..Len(chain) : chain[i].result.kind = "return"
        /\ Len(chain) = 2 =>
            /\ chain[2].step \in {"step2", "step3"}
                    => chain[1].result.resp.Result = "Success"
            /\ chain[2].step = "step-exception"
                    => chain[1].result.resp.Result = "Exception"
            /\ chain[2].result.resp.Result = "Success"

\* C5: the exception step returns Success, 200 and Data decoding to
\* "Exception raised" for every request, its Data present or absent.
C5_ExceptionStepAlwaysSucceeds ==
    (ProcessEnded /\ call.step = "step-exception") =>
        /\ result.kind = "return"
        /\ result.resp.Result = "Success"
        /\ result.resp.StatusCode = 200
        /\ b64decode(result.resp.Data) =
                [ok |-> TRUE, exc |-> "none", val |-> TxtExceptionRaised]

\* C6: the generator returns Exception with 500 exactly when the value it
\* drew is divisible by 3 and Success with 200 otherwise, and its Data
\* decodes to the decimal text of that value.
C6_GeneratorRule ==
    (ProcessEnded /\ call.step = "step1") =>
        /\ result.kind = "return"
        /\ call.rand % 3 = 0 =>
                (result.resp.Result = "Exception" /\ result.resp.StatusCode = 500)
        /\ call.rand % 3 # 0 =>
                (result.resp.Result = "Success" /\ result.resp.StatusCode = 200)
        /\ b64decode(result.resp.Data).ok
        /\ IsDecimalTextOf(b64decode(result.resp.Data).val, call.rand)

C6_Witness ==
    /\ ProcessEnded
    /\ call.step = "step1"
    /\ call.rand = 99
    /\ result.kind = "return"
    /\ result.resp.Result = "Exception"
    /\ b64decode(result.resp.Data).val = <<57, 57>>

\* The statements of each step that build or emit a log record.
LogLines(step) ==
    CASE step = "step1" -> {20, 25, 33, 38}
      [] step = "step2" -> {19, 26}
      [] step = "step3" -> {20, 29}
      [] step = "loopbackget" -> {64}
      [] OTHER -> {19, 25}

\* C7: logging never prevents or changes the response: no call of process
\* ends with a fault raised by a log statement, and loopbackget returns the
\* same response with log_console set or not.
C7_LoggingNeverAffectsResponse ==
    ProcessEnded =>
        /\ ~(result.kind = "raise" /\ result.line \in LogLines(call.step))
        /\ (call.step = "loopbackget" /\ result.kind = "return") =>
                \A console \in BOOLEAN :
                    LET other == loopbackget_process(call.req, console, call.now) IN
                    other.kind = "return" /\ other.resp = result.resp

\* C8: log(sev, msg) raises, and prints nothing, for every severity outside
\* severity_values whatever the message, and never raises for a severity
\* inside it.
C8_LogRaisesOnBadSeverity ==
    (pc = "returned" /\ call.op = "log") =>
        /\ call.sev \notin severity_values =>
                (result.kind = "raise" /\ result.out = <<>>)
        /\ call.sev \in severity_values => result.kind = "return"

\* Digits up to which the double-precision square root, rounded, is the
\* nearest integer (the first n where it is not is 1125900007505922).
ExactSqrtDigits == 15

\* The call was step3's process on the base64 of a decimal text.
C9_DecimalRequest ==
    /\ ProcessEnded
    /\ call.step = "step3"
    /\ "Data" \in DOMAIN call.req
    /\ b64decode(call.req.Data).ok
    /\ IsDecimalText(b64decode(call.req.Data).val)
    /\ call.req.Data = b64encode(b64decode(call.req.Data).val)

C9_RootReturned ==
    /\ result.kind = "return"
    /\ result.resp.Result = "Success"
    /\ result.resp.StatusCode = 200
    /\ b64decode(result.resp.Data).ok
    /\ IsDecimalText(b64decode(result.resp.Data).val)

C10_SelfTestsComplete ==
    (pc = "returned" /\ call.op = "runtest") =>
        /\ result.kind = "return"
        /\ Len(result.out) >= 2
        /\ result.out[Len(result.out) - 1].json = result.resp
        /\ LET shown == SubSeq(result.out[Len(result.out)].text,
                               Len(TxtDecoded) + 1,
                               Len(result.out[Len(result.out)].text))
           IN  /\ call.step = "step2" => IsDecimalTextOf(shown, 5 * call.val)
               /\ call.step = "step3" =>
                    (IsDecimalText(shown)
                        /\ NearestRoot(DecimalValue(shown, Len(shown)), call.val))
               /\ call.step = "step1" => IsDecimalTextOf(shown, call.rand)
               /\ call.step = "loopbackget" => shown = TxtHello
               /\ call.step = "step-exception" => shown = TxtExceptionRaised

=============================================================================
